---- MODULE Spec2Model ----
(***************************************************************************)
(* Model of securedrop/crypto_util.py: the CryptoUtil object (two-pepper   *)
(* scrypt derivation, GPG reply-keypair lifecycle, the per-locale word-list *)
(* cache of get_wordlist) and the clean() sanitizer.                       *)
(*                                                                         *)
(* A Python string is a sequence of symbols.  A symbol is a one-character  *)
(* TLA+ string, or a block standing for a fixed-width run of characters    *)
(* (a base32 digest, a fingerprint digit group).  Byte strings are         *)
(* sequences of byte symbols.                                              *)
(***************************************************************************)
EXTENDS Integers, Sequences, FiniteSets, TLC

VARIABLES
    env,               \* os.environ.get('SECUREDROP_ENV')
    phase,             \* position inside CryptoUtil.__init__
    scrypt_params,     \* self.scrypt_params
    gpg_key_length,    \* self.__gpg_key_length
    scrypt_id_pepper,  \* self.scrypt_id_pepper
    scrypt_gpg_pepper, \* self.scrypt_gpg_pepper
    gpg,               \* TRUE once self.gpg = gnupg.GPG(...) has run
    args,              \* the constructor's arguments
    keyring,           \* the engine's keys, in creation order
    pc,                \* per worker: position inside delete_reply_keypair
    key,               \* per worker: local `key` of delete_reply_keypair
    trace,             \* per worker: engine calls of the running delete
    last,              \* the most recently completed call and its outcome
    language2words,    \* self.__language2words
    fs,                \* the word-list files: path -> text, or Missing
    frame              \* per thread: its position and locals in get_wordlist

vars == <<env, phase, scrypt_params, gpg_key_length, scrypt_id_pepper,
          scrypt_gpg_pepper, gpg, args, keyring, pc, key, trace, last,
          language2words, fs, frame>>

(***************************************************************************)
(* Bounds and input domains                                                *)
(***************************************************************************)
MaxKeys == 2

\* longest string clean is applied to on its own
MaxLen == 3

\* the workers that can be inside delete_reply_keypair; every other call
\* is made by any worker and interleaves with the running delete
Procs == {1}

Peppers == {<<"A">>, <<"B">>}

\* values of SECUREDROP_ENV; "<unset>" is the variable not being set
Envs == {"test", "prod", "dev", "<unset>"}

\* the scrypt_params constructor argument (config.SCRYPT_PARAMS)
ConfiguredParams == [N |-> 16384, r |-> 8, p |-> 1]

\* the parameters substituted under SECUREDROP_ENV == 'test'
TestParams == [N |-> 2, r |-> 1, p |-> 1]

\* codenames and names callers pass: two valid ones, one with a disallowed
\* ASCII character, and a unicode one with a disallowed non-ASCII character
Codenames == {<<"a">>, <<"b">>, <<"[">>, <<"e'">>}

\* plaintexts: unicode text or byte strings
Plaintexts == {[unicode |-> FALSE, s |-> <<"h">>],
               [unicode |-> TRUE, s |-> <<"e'">>]}

\* output=None, a path inside the store, a path outside the store
Outputs == {"", "store/reply.gpg", "../reply.gpg"}

\* characters clean is applied to: an allowed one, a disallowed one, and
\* the non-ASCII character of a unicode string
CleanChars == {"a", "[", "e'"}

\* the strings up to MaxLen characters, and the two strings of the doctests
CleanInputs ==
    UNION {[1..n -> CleanChars] : n \in 0..MaxLen}
      \cup {<<"[", "]">>,
            <<"H", "e", "l", "l", "o", "w", "o", "r", "l", "d">>}

\* the `also' arguments: the default '', and one extra character
Alsos == {{}, {"["}, {"e'"}}

\* the threads that call get_wordlist
Threads == {1, 2}

\* locales get_wordlist is called with: the default, one that has a
\* word-list file of its own, one that has none
Locales == {"en", "fr", "xx"}

\* a file's text: words and line ends
EnglishText == <<"able", "\n", "acid", "\n">>

\* the default word list after it has been replaced on disk
EnglishTextNew == <<"able", "\n", "zoo", "\n">>

FrenchText == <<"ami", "\n">>

\* self.__word_list, the path of the default word list
WordListPath == "wordlist.txt"

\* os.path.join(self.__securedrop_root, 'wordlists', locale + '.txt')
LocalePath(locale) == "wordlists/" \o locale \o ".txt"

Paths == {WordListPath} \cup {LocalePath(l) : l \in Locales \ {"en"}}

\* what fs holds for a path that is no file
Missing == <<"<missing>">>

\* Python's None, where a string is expected
None == <<"<None>">>

NoError == ""

(***************************************************************************)
(* clean                                                                   *)
(***************************************************************************)
DICEWARE_SAFE_CHARS ==
    {" ", "!", "#", "%", "$", "&", ")", "(", "+", "*", "-",
     "1", "0", "3", "2", "5", "4", "7", "6", "9", "8",
     ";", ":", "=", "?", "@",
     "a", "c", "b", "e", "d", "g", "f", "i", "h", "k", "j", "m", "l",
     "o", "n", "q", "p", "s", "r", "u", "t", "w", "v", "y", "x", "z",
     "A", "B", "C", "D", "E", "F", "G", "H", "I", "J", "K", "L", "M",
     "N", "O", "P", "Q", "R", "S", "T", "U", "V", "W", "X", "Y", "Z"}

RECURSIVE Str(_)
\* the characters of a symbol sequence, run together
Str(s) == IF s = <<>> THEN "" ELSE Head(s) \o Str(Tail(s))

ParamsName(params) == IF params = TestParams THEN "N2r1p1" ELSE "N16384r8p1"

\* scrypt.hash(password, salt, N, r, p): an opaque deterministic digest,
\* one block per (password, salt, parameters)
scrypt_hash(password, salt, params) ==
    "scrypt(" \o Str(password) \o "," \o Str(salt) \o ","
              \o ParamsName(params) \o ")"

\* base32 text of a digest: a fixed-width block of characters of A-Z2-7=
b32encode(digest) == <<digest>>

\* the base32 blocks that can occur
B32Blocks ==
    {scrypt_hash(c, s, q) : c \in Codenames, s \in Peppers,
                            q \in {ConfiguredParams, TestParams}}

\* `c not in DICEWARE_SAFE_CHARS and c not in also' is false
SafeChar(c, also) ==
    c \in DICEWARE_SAFE_CHARS \/ c \in B32Blocks \/ c \in also

\* characters the ascii codec cannot encode; a string holding one is a
\* unicode object
NonAscii == {"e'"}

\* str(s) and "...{0}".format(s): the implicit ascii encoding of a unicode
\* object raises UnicodeEncodeError on a non-ASCII character
AsciiEncodable(s) == \A i \in 1..Len(s) : s[i] \notin NonAscii

\* clean(s, also): str(s), or the exception raised
clean(s, also) ==
    IF \A i \in 1..Len(s) : SafeChar(s[i], also)
    THEN IF AsciiEncodable(s)
         THEN [err |-> NoError, val |-> s]
         ELSE [err |-> "UnicodeEncodeError", val |-> <<>>]
    ELSE IF AsciiEncodable(s)
         THEN [err |-> "CryptoException", val |-> <<>>]
         ELSE [err |-> "UnicodeEncodeError", val |-> <<>>]

(***************************************************************************)
(* hash_codename                                                           *)
(***************************************************************************)
\* hash_codename(codename, salt) of an object with the given id pepper and
\* parameters
hash_codename(codename, salt, idPepper, params) ==
    LET s == IF salt = None THEN idPepper ELSE salt
        c == clean(codename, {})
    IN IF c.err /= NoError
       THEN c
       ELSE [err |-> NoError, val |-> b32encode(scrypt_hash(c.val, s, params))]

(***************************************************************************)
(* The engine (gnupg.GPG): its keyring and the calls CryptoUtil makes      *)
(***************************************************************************)
\* fingerprint of the n-th key the engine created, as list_keys and
\* gen_key report it
Fpr(n) == <<"FPR", ToString(n)>>

\* the same fingerprint grouped with spaces, as gpg prints it
FprSpaced(n) == <<"FPR", " ", ToString(n)>>

\* index of the key a fingerprint names, 0 when the engine has no such key
KeyOf(ring, fpr) ==
    IF \E n \in 1..Len(ring) : Fpr(n) = fpr
    THEN CHOOSE n \in 1..Len(ring) : Fpr(n) = fpr
    ELSE 0

\* user id the engine builds from gen_key_input(name_email=name)
Uid(name) == <<"Autogenerated Key <">> \o name \o <<">">>

\* gpg.gen_key(gpg.gen_key_input(key_type, key_length, passphrase,
\* name_email)): a new key with a new fingerprint, or no key when the
\* engine fails
gen_key(ring, key_type, key_length, passphrase, name_email, ok) ==
    IF ok
    THEN [ring |-> Append(ring, [uid |-> Uid(name_email),
                                 passphrase |-> passphrase,
                                 type |-> key_type,
                                 bits |-> key_length,
                                 pub |-> TRUE, sec |-> TRUE]),
          fingerprint |-> Fpr(Len(ring) + 1)]
    ELSE [ring |-> ring, fingerprint |-> <<>>]

RECURSIVE ListFrom(_, _)
ListFrom(ring, n) ==
    IF n > Len(ring) THEN <<>>
    ELSE (IF ring[n].pub
          THEN <<[fingerprint |-> Fpr(n), uids |-> <<ring[n].uid>>]>>
          ELSE <<>>) \o ListFrom(ring, n + 1)

\* gpg.list_keys(): the public keys, in keyring order
list_keys(ring) == ListFrom(ring, 1)

\* gpg.delete_keys(fingerprint, secret): the engine's result is "ok" when
\* the half was removed, "refused" when gpg declines (no such key, or a
\* public key whose secret key still exists), "fault" when the call
\* itself failed; nothing is raised
delete_keys(ring, fingerprint, secret, fault) ==
    LET n == KeyOf(ring, fingerprint) IN
    IF fault THEN [ring |-> ring, status |-> "fault"]
    ELSE IF n = 0 THEN [ring |-> ring, status |-> "refused"]
    ELSE IF secret
         THEN IF ring[n].sec
              THEN [ring |-> [ring EXCEPT ![n].sec = FALSE], status |-> "ok"]
              ELSE [ring |-> ring, status |-> "refused"]
         ELSE IF ring[n].pub /\ ~ring[n].sec
              THEN [ring |-> [ring EXCEPT ![n].pub = FALSE], status |-> "ok"]
              ELSE [ring |-> ring, status |-> "refused"]

\* gpg.export_keys(fingerprint): the armored public key, or empty output
\* when nothing matches
export_keys(ring, fingerprint) ==
    LET n == KeyOf(ring, fingerprint) IN
    IF n /= 0 /\ ring[n].pub THEN <<"PUBLIC KEY BLOCK", ToString(n)>>
    ELSE <<>>

\* what a result's data holds when the engine wrote no data
NoData == [rcpts |-> {}, data |-> <<>>, intact |-> FALSE]

\* gpg.encrypt(stream, *recipients, output, always_trust, armor)
gpg_encrypt(ring, stream, recipients, output) ==
    LET ns == {KeyOf(ring, recipients[i]) : i \in 1..Len(recipients)}
        ct == [rcpts |-> ns, data |-> stream, intact |-> TRUE]
    IN IF recipients /= <<>> /\ \A n \in ns : n /= 0 /\ ring[n].pub
       THEN [ok |-> TRUE,
             data |-> IF output = "" THEN ct ELSE NoData,
             file |-> IF output = "" THEN NoData ELSE ct,
             stderr |-> ""]
       ELSE [ok |-> FALSE, data |-> NoData, file |-> NoData,
             stderr |-> "gpg: encryption failed"]

\* gpg.decrypt(ciphertext, passphrase)
gpg_decrypt(ring, ciphertext, passphrase) ==
    IF ciphertext.intact
       /\ \E n \in ciphertext.rcpts :
              ring[n].sec /\ ring[n].passphrase = passphrase
    THEN [ok |-> TRUE, data |-> ciphertext.data]
    ELSE [ok |-> FALSE, data |-> <<>>]

\* current_app.storage.verify(output): raises for a path outside the store
storage_verify(output) ==
    IF output = "store/reply.gpg" THEN NoError ELSE "PathException"

(***************************************************************************)
(* CryptoUtil methods                                                      *)
(***************************************************************************)
\* s contains sub as a substring (Python's `sub in s')
Contains(sub, s) ==
    \E i \in 1..(Len(s) - Len(sub) + 1) : SubSeq(s, i, i + Len(sub) - 1) = sub

Min(S) == CHOOSE m \in S : \A o \in S : m <= o

\* getkey returning the first listed key without testing its uids
getkey_first_listed(ring, name) ==
    LET ks == list_keys(ring)
    IN IF ks = <<>> THEN None ELSE ks[1].fingerprint

\* getkey(name)
getkey(ring, name) ==
    LET ks == list_keys(ring)
        hits == {i \in 1..Len(ks) :
                    \E j \in 1..Len(ks[i].uids) : Contains(name, ks[i].uids[j])}
    IN IF hits = {} THEN None ELSE ks[Min(hits)].fingerprint

\* a record of one call to a collaborator
Call(fn, arg) == [fn |-> fn, arg |-> arg, secret |-> FALSE, status |-> "ok"]

\* export_pubkey(name)
export_pubkey(ring, name) ==
    LET fingerprint == getkey(ring, name) IN
    [err |-> NoError,
     val |-> export_keys(ring, fingerprint),
     calls |-> <<Call("list_keys", <<>>), Call("export_keys", fingerprint)>>]

\* fpr.replace(' ', '')
RemoveSpaces(fpr) == SelectSeq(fpr, LAMBDA c : c /= " ")

\* text.encode('utf_8'), symbol by symbol
Utf8(c) == IF c = "e'" THEN <<"xC3", "xA9">> ELSE <<c>>

RECURSIVE Encode(_)
Encode(s) == IF s = <<>> THEN <<>> ELSE Utf8(Head(s)) \o Encode(Tail(s))

\* _make_binary_stream(plaintext, "utf_8")
make_binary_stream(plaintext) ==
    IF plaintext.unicode THEN Encode(plaintext.s) ELSE plaintext.s

\* encrypt verifying the output path after the engine has encrypted
encrypt_verify_late(ring, plaintext, fingerprints, output) ==
    LET verified == IF output /= "" THEN storage_verify(output) ELSE NoError
        fprs0 == IF fingerprints.is_list THEN fingerprints.v
                 ELSE <<fingerprints.v>>
        fprs == [i \in 1..Len(fprs0) |-> RemoveSpaces(fprs0[i])]
        out == gpg_encrypt(ring, make_binary_stream(plaintext), fprs, output)
        post == IF output /= "" THEN <<Call("verify", <<output>>)>> ELSE <<>>
    IN IF ~out.ok
       THEN [err |-> "CryptoException", msg |-> out.stderr, val |-> NoData,
             file |-> out.file, calls |-> <<Call("encrypt", fprs)>>]
       ELSE IF verified /= NoError
       THEN [err |-> verified, msg |-> "", val |-> NoData, file |-> out.file,
             calls |-> <<Call("encrypt", fprs)>> \o post]
       ELSE [err |-> NoError, msg |-> "", val |-> out.data, file |-> out.file,
             calls |-> <<Call("encrypt", fprs)>> \o post]

\* the record of the gpg.encrypt call: its status is "ok" or the stderr text
EncryptCall(fprs, out) ==
    [Call("encrypt", fprs) EXCEPT !.status = IF out.ok THEN "ok" ELSE out.stderr]

\* encrypt returning out.data without testing out.ok
encrypt_unchecked(ring, plaintext, fingerprints, output) ==
    LET verified == IF output /= "" THEN storage_verify(output) ELSE NoError
        fprs0 == IF fingerprints.is_list THEN fingerprints.v
                 ELSE <<fingerprints.v>>
        fprs == [i \in 1..Len(fprs0) |-> RemoveSpaces(fprs0[i])]
        out == gpg_encrypt(ring, make_binary_stream(plaintext), fprs, output)
        pre == IF output /= "" THEN <<Call("verify", <<output>>)>> ELSE <<>>
    IN IF verified /= NoError
       THEN [err |-> verified, msg |-> "", val |-> NoData, file |-> NoData,
             calls |-> pre]
       ELSE [err |-> NoError, msg |-> "", val |-> out.data, file |-> out.file,
             calls |-> Append(pre, EncryptCall(fprs, out))]

\* encrypt(plaintext, fingerprints, output); msg is the argument of the
\* CryptoException it raises
encrypt(ring, plaintext, fingerprints, output) ==
    LET verified == IF output /= "" THEN storage_verify(output) ELSE NoError
        fprs0 == IF fingerprints.is_list THEN fingerprints.v
                 ELSE <<fingerprints.v>>
        fprs == [i \in 1..Len(fprs0) |-> RemoveSpaces(fprs0[i])]
        out == gpg_encrypt(ring, make_binary_stream(plaintext), fprs, output)
        pre == IF output /= "" THEN <<Call("verify", <<output>>)>> ELSE <<>>
    IN IF verified /= NoError
       THEN [err |-> verified, msg |-> "", val |-> NoData, file |-> NoData,
             calls |-> pre]
       ELSE IF out.ok
       THEN [err |-> NoError, msg |-> "", val |-> out.data, file |-> out.file,
             calls |-> Append(pre, EncryptCall(fprs, out))]
       ELSE [err |-> "CryptoException", msg |-> out.stderr, val |-> NoData,
             file |-> out.file,
             calls |-> Append(pre, EncryptCall(fprs, out))]

\* decrypt deriving the passphrase without salt=self.scrypt_gpg_pepper
decrypt_default_salt(ring, secret, ciphertext, idPepper, gpgPepper, params) ==
    LET hashed_codename == hash_codename(secret, None, idPepper, params)
    IN IF hashed_codename.err /= NoError
       THEN [err |-> hashed_codename.err, val |-> <<>>, calls |-> <<>>]
       ELSE LET out == gpg_decrypt(ring, ciphertext, hashed_codename.val)
            IN [err |-> NoError,
                val |-> out.data,
                calls |-> <<[Call("decrypt", <<>>) EXCEPT
                               !.status = IF out.ok THEN "ok" ELSE "failed"]>>]

\* decrypt(secret, ciphertext)
decrypt(ring, secret, ciphertext, idPepper, gpgPepper, params) ==
    LET hashed_codename == hash_codename(secret, gpgPepper, idPepper, params)
    IN IF hashed_codename.err /= NoError
       THEN [err |-> hashed_codename.err, val |-> <<>>, calls |-> <<>>]
       ELSE LET out == gpg_decrypt(ring, ciphertext, hashed_codename.val)
            IN [err |-> NoError,
                val |-> out.data,
                calls |-> <<[Call("decrypt", <<>>) EXCEPT
                               !.status = IF out.ok THEN "ok" ELSE "failed"]>>]

\* genkeypair deriving the passphrase without salt=self.scrypt_gpg_pepper
genkeypair_nosalt(ring, name, secret, ok, idPepper, gpgPepper, params, bits) ==
    LET cname == clean(name, {})
        hashed == hash_codename(secret, None, idPepper, params)
        out == gen_key(ring, "RSA", bits, hashed.val, cname.val, ok)
    IN IF cname.err /= NoError
       THEN [err |-> cname.err, val |-> <<>>, ring |-> ring, calls |-> <<>>]
       ELSE IF hashed.err /= NoError
       THEN [err |-> hashed.err, val |-> <<>>, ring |-> ring, calls |-> <<>>]
       ELSE [err |-> NoError, val |-> out.fingerprint, ring |-> out.ring,
             calls |-> <<Call("gen_key", cname.val)>>]

\* genkeypair returning the key getkey finds for the name, when there is one
genkeypair_if_absent(ring, name, secret, ok, idPepper, gpgPepper, params, bits) ==
    LET cname == clean(name, {})
        hashed == hash_codename(secret, gpgPepper, idPepper, params)
        out == gen_key(ring, "RSA", bits, hashed.val, cname.val, ok)
    IN IF cname.err /= NoError
       THEN [err |-> cname.err, val |-> <<>>, ring |-> ring, calls |-> <<>>]
       ELSE IF hashed.err /= NoError
       THEN [err |-> hashed.err, val |-> <<>>, ring |-> ring, calls |-> <<>>]
       ELSE IF getkey(ring, cname.val) /= None
       THEN [err |-> NoError, val |-> getkey(ring, cname.val), ring |-> ring,
             calls |-> <<Call("list_keys", <<>>)>>]
       ELSE [err |-> NoError, val |-> out.fingerprint, ring |-> out.ring,
             calls |-> <<Call("list_keys", <<>>), Call("gen_key", cname.val)>>]

\* genkeypair(name, secret)
genkeypair(ring, name, secret, ok, idPepper, gpgPepper, params, bits) ==
    LET cname == clean(name, {})
        hashed == hash_codename(secret, gpgPepper, idPepper, params)
        out == gen_key(ring, "RSA", bits, hashed.val, cname.val, ok)
    IN IF cname.err /= NoError
       THEN [err |-> cname.err, val |-> <<>>, ring |-> ring, calls |-> <<>>]
       ELSE IF hashed.err /= NoError
       THEN [err |-> hashed.err, val |-> <<>>, ring |-> ring, calls |-> <<>>]
       ELSE [err |-> NoError, val |-> out.fingerprint, ring |-> out.ring,
             calls |-> <<Call("gen_key", cname.val)>>]

(***************************************************************************)
(* State machine                                                           *)
(***************************************************************************)
\* an attribute __init__ has not assigned yet
Unset == [N |-> 0, r |-> 0, p |-> 0]

NoCall == [op |-> "none", arg |-> <<>>, err |-> NoError, val |-> <<>>,
           file |-> NoData, calls |-> <<>>]

Done(op, arg, err, val, file, calls) ==
    [op |-> op, arg |-> arg, err |-> err, val |-> val, file |-> file,
     calls |-> calls]

wlvars == <<language2words, fs, frame>>

\* {}, the dictionary with no key
EmptyCache == [l \in {} |-> <<>>]

\* a thread that is not inside get_wordlist and has not called it
NoFrame ==
    [pc |-> "idle", locale |-> "", wordlist_path |-> "", content |-> <<>>,
     hit |-> FALSE, calls |-> <<>>, err |-> NoError, ret |-> <<>>]

\* the word-list files of an installation: the default list and fr.txt
InstalledFiles ==
    [p \in Paths |-> IF p = WordListPath THEN EnglishText
                     ELSE IF p = LocalePath("fr") THEN FrenchText
                     ELSE Missing]

InitAll ==
    /\ language2words = EmptyCache
    /\ fs = InstalledFiles
    /\ frame = [t \in Threads |-> NoFrame]
    /\ env \in Envs
    /\ args \in [scrypt_id_pepper : Peppers, scrypt_gpg_pepper : Peppers,
                 scrypt_params : {ConfiguredParams}]
    /\ phase = "new"
    /\ scrypt_params = Unset
    /\ gpg_key_length = 0
    /\ scrypt_id_pepper = None
    /\ scrypt_gpg_pepper = None
    /\ gpg = FALSE
    /\ keyring = <<>>
    /\ pc = [w \in Procs |-> "idle"]
    /\ key = [w \in Procs |-> None]
    /\ trace = [w \in Procs |-> <<>>]
    /\ last = NoCall

\* the configurations the keypair lifecycle is explored under: the engine
\* calls do not depend on which pepper values or parameters are configured
Init ==
    /\ InitAll
    /\ env = "test"
    /\ args.scrypt_id_pepper = <<"A">>

\* __init__ taking the reduced settings whenever the environment is not
\* production
InitParams_reduced_unless_prod ==
    /\ phase = "new"
    /\ IF env /= "prod"
       THEN gpg_key_length' = 1024 /\ scrypt_params' = TestParams
       ELSE gpg_key_length' = 4096 /\ scrypt_params' = args.scrypt_params
    /\ scrypt_id_pepper' = args.scrypt_id_pepper
    /\ scrypt_gpg_pepper' = args.scrypt_gpg_pepper
    /\ phase' = "configured"
    /\ UNCHANGED <<env, args, gpg, keyring, pc, key, trace, last>>
    /\ UNCHANGED wlvars

\* __init__, up to the call of do_runtime_tests
InitParams ==
    /\ phase = "new"
    /\ IF env = "test"
       THEN gpg_key_length' = 1024 /\ scrypt_params' = TestParams
       ELSE gpg_key_length' = 4096 /\ scrypt_params' = args.scrypt_params
    /\ scrypt_id_pepper' = args.scrypt_id_pepper
    /\ scrypt_gpg_pepper' = args.scrypt_gpg_pepper
    /\ phase' = "configured"
    /\ UNCHANGED <<env, args, gpg, keyring, pc, key, trace, last>>
    /\ UNCHANGED wlvars

\* do_runtime_tests without the comparison of the peppers
do_runtime_tests_unchecked(idPepper, gpgPepper, srm) ==
    IF srm = "missing" THEN "OSError" ELSE NoError

\* do_runtime_tests: the exception it raises, NoError when it returns;
\* srm is what running the srm binary does
do_runtime_tests(idPepper, gpgPepper, srm) ==
    IF idPepper = gpgPepper THEN "AssertionError"
    ELSE IF srm = "missing" THEN "OSError"
    ELSE NoError

\* self.do_runtime_tests() inside __init__: an exception ends construction
RuntimeTests ==
    /\ phase = "configured"
    /\ \E srm \in {"exit0", "nonzero", "missing"} :
          LET e == do_runtime_tests(scrypt_id_pepper, scrypt_gpg_pepper, srm)
          IN IF e = NoError
             THEN phase' = "tested" /\ last' = last
             ELSE /\ phase' = "failed"
                  /\ last' = Done("__init__", <<>>, e, <<>>, NoData, <<>>)
    /\ UNCHANGED <<env, args, scrypt_params, gpg_key_length, scrypt_id_pepper,
                   scrypt_gpg_pepper, gpg, keyring, pc, key, trace>>
    /\ UNCHANGED wlvars

\* the rest of __init__: the engine handle and the word lists
InitEngine ==
    /\ phase = "tested"
    /\ gpg' = TRUE
    /\ language2words' = EmptyCache
    /\ phase' = "ready"
    /\ UNCHANGED <<env, args, scrypt_params, gpg_key_length, scrypt_id_pepper,
                   scrypt_gpg_pepper, keyring, pc, key, trace, last, fs, frame>>

\* a constructed object exists and can take calls
Ready == phase = "ready"

\* the identity hash of a codename, as callers compute it
identity_hash(c) ==
    hash_codename(c, None, scrypt_id_pepper, scrypt_params)

\* the passphrase genkeypair and decrypt derive from a codename
key_passphrase(c) ==
    hash_codename(c, scrypt_gpg_pepper, scrypt_id_pepper, scrypt_params)

ValidCodenames == {c \in Codenames : clean(c, {}).err = NoError}

\* the filesystem ids callers pass as `name'
Names == {identity_hash(c).val : c \in ValidCodenames}

UNCHANGED_object ==
    UNCHANGED <<env, args, phase, scrypt_params, gpg_key_length,
                scrypt_id_pepper, scrypt_gpg_pepper, gpg, language2words, fs,
                frame>>

\* a call of hash_codename(codename)
HashCodename ==
    /\ Ready
    /\ \E c \in Codenames :
          LET r == identity_hash(c)
          IN last' = Done("hash_codename", <<c>>, r.err, r.val, NoData, <<>>)
    /\ UNCHANGED_object
    /\ UNCHANGED <<keyring, pc, key, trace>>

\* the (name, secret) pairs genkeypair is called with
GenArgs ==
    {<<identity_hash(c).val, c>> : c \in ValidCodenames}
      \cup {<<n, c>> : n \in Names, c \in Codenames \ ValidCodenames}
      \cup {<<c, d>> : c \in Codenames \ ValidCodenames, d \in ValidCodenames}

\* a call of genkeypair(name, secret)
GenKeypair ==
    /\ Ready
    /\ \E a \in GenArgs, ok \in BOOLEAN :
          LET r == genkeypair(keyring, a[1], a[2], ok, scrypt_id_pepper,
                              scrypt_gpg_pepper, scrypt_params, gpg_key_length)
          IN /\ Len(r.ring) <= MaxKeys
             /\ keyring' = r.ring
             /\ last' = Done("genkeypair", a, r.err, r.val, NoData, r.calls)
    /\ UNCHANGED_object
    /\ UNCHANGED <<pc, key, trace>>

\* a call of getkey(name)
GetKey ==
    /\ Ready
    /\ \E n \in Names :
          last' = Done("getkey", <<n>>, NoError, getkey(keyring, n), NoData,
                       <<Call("list_keys", <<>>)>>)
    /\ UNCHANGED_object
    /\ UNCHANGED <<keyring, pc, key, trace>>

\* a call of export_pubkey(name)
ExportPubkey ==
    /\ Ready
    /\ \E n \in Names :
          LET r == export_pubkey(keyring, n)
          IN last' = Done("export_pubkey", <<n>>, r.err, r.val, NoData, r.calls)
    /\ UNCHANGED_object
    /\ UNCHANGED <<keyring, pc, key, trace>>

\* the `fingerprints' arguments encrypt is called with: one fingerprint as
\* gpg prints it, a list of fingerprints, or a fingerprint of no key
Recipients ==
    {[is_list |-> FALSE, v |-> FprSpaced(n)] : n \in 1..Len(keyring)}
      \cup {[is_list |-> TRUE, v |-> <<Fpr(n)>>] : n \in 1..Len(keyring)}
      \cup {[is_list |-> FALSE, v |-> Fpr(0)]}

\* a call of encrypt(plaintext, fingerprints, output)
Encrypt ==
    /\ Ready
    /\ \E m \in Plaintexts, f \in Recipients, o \in Outputs :
          LET r == encrypt(keyring, m, f, o)
          IN last' = Done("encrypt", <<m, f, o>>, r.err, r.val, r.file, r.calls)
    /\ UNCHANGED_object
    /\ UNCHANGED <<keyring, pc, key, trace>>

\* the ciphertexts decrypt is called with: what the engine can have
\* produced for keys of the keyring, and data that is no ciphertext
Ciphertexts ==
    {[rcpts |-> {n}, data |-> make_binary_stream(m), intact |-> TRUE] :
        n \in 1..Len(keyring), m \in Plaintexts}
      \cup {NoData}

\* a call of decrypt(secret, ciphertext)
Decrypt ==
    /\ Ready
    /\ \E c \in Codenames, ct \in Ciphertexts :
          LET r == decrypt(keyring, c, ct, scrypt_id_pepper, scrypt_gpg_pepper,
                           scrypt_params)
          IN last' = Done("decrypt", <<c, ct>>, r.err, r.val, NoData, r.calls)
    /\ UNCHANGED_object
    /\ UNCHANGED <<keyring, pc, key, trace>>

\* delete_reply_keypair(name), up to the first engine deletion
DeleteBegin(w) ==
    /\ Ready
    /\ pc[w] = "idle"
    /\ \E n \in Names :
          LET k == getkey(keyring, n)
              c == Call("getkey", n)
          IN IF k = None \/ k = <<>>
             THEN /\ last' = Done("delete_reply_keypair", <<n>>, NoError, None,
                                  NoData, <<c>>)
                  /\ UNCHANGED <<pc, key, trace>>
             ELSE /\ pc' = [pc EXCEPT ![w] = "delete_private"]
                  /\ key' = [key EXCEPT ![w] = k]
                  /\ trace' = [trace EXCEPT ![w] = <<c>>]
                  /\ last' = last
    /\ UNCHANGED_object
    /\ UNCHANGED keyring

\* the first deletion issued without secret=True: the public half first
DeletePrivate_public_first(w) ==
    /\ pc[w] = "delete_private"
    /\ \E fault \in BOOLEAN :
          LET r == delete_keys(keyring, key[w], FALSE, fault)
          IN /\ keyring' = r.ring
             /\ trace' = [trace EXCEPT ![w] =
                   Append(@, [fn |-> "delete_keys", arg |-> key[w],
                              secret |-> FALSE, status |-> r.status])]
    /\ pc' = [pc EXCEPT ![w] = "delete_public"]
    /\ UNCHANGED <<env, args, phase, scrypt_params, gpg_key_length,
                   scrypt_id_pepper, scrypt_gpg_pepper, gpg>>
    /\ UNCHANGED wlvars
    /\ UNCHANGED <<key, last>>

\* self.gpg.delete_keys(key, True)
DeletePrivate(w) ==
    /\ pc[w] = "delete_private"
    /\ \E fault \in BOOLEAN :
          LET r == delete_keys(keyring, key[w], TRUE, fault)
          IN /\ keyring' = r.ring
             /\ trace' = [trace EXCEPT ![w] =
                   Append(@, [fn |-> "delete_keys", arg |-> key[w],
                              secret |-> TRUE, status |-> r.status])]
    /\ pc' = [pc EXCEPT ![w] = "delete_public"]
    /\ UNCHANGED_object
    /\ UNCHANGED <<key, last>>

\* the second deletion issued with secret=True again
DeletePublic_secret_again(w) ==
    /\ pc[w] = "delete_public"
    /\ \E fault \in BOOLEAN :
          LET r == delete_keys(keyring, key[w], TRUE, fault)
          IN /\ keyring' = r.ring
             /\ last' = Done("delete_reply_keypair", <<trace[w][1].arg>>,
                             NoError, None, NoData,
                   Append(trace[w], [fn |-> "delete_keys", arg |-> key[w],
                                     secret |-> TRUE, status |-> r.status]))
    /\ pc' = [pc EXCEPT ![w] = "idle"]
    /\ key' = [key EXCEPT ![w] = None]
    /\ trace' = [trace EXCEPT ![w] = <<>>]
    /\ UNCHANGED <<env, args, phase, scrypt_params, gpg_key_length,
                   scrypt_id_pepper, scrypt_gpg_pepper, gpg>>
    /\ UNCHANGED wlvars

\* self.gpg.delete_keys(key), and the return
DeletePublic(w) ==
    /\ pc[w] = "delete_public"
    /\ \E fault \in BOOLEAN :
          LET r == delete_keys(keyring, key[w], FALSE, fault)
          IN /\ keyring' = r.ring
             /\ last' = Done("delete_reply_keypair", <<trace[w][1].arg>>,
                             NoError, None, NoData,
                   Append(trace[w], [fn |-> "delete_keys", arg |-> key[w],
                                     secret |-> FALSE, status |-> r.status]))
    /\ pc' = [pc EXCEPT ![w] = "idle"]
    /\ key' = [key EXCEPT ![w] = None]
    /\ trace' = [trace EXCEPT ![w] = <<>>]
    /\ UNCHANGED_object

Next ==
    \/ InitParams
    \/ RuntimeTests
    \/ InitEngine
    \/ HashCodename
    \/ GenKeypair
    \/ GetKey
    \/ ExportPubkey
    \/ Encrypt
    \/ Decrypt
    \/ \E w \in Procs : DeleteBegin(w)
    \/ \E w \in Procs : DeletePrivate(w)
    \/ \E w \in Procs : DeletePublic(w)

Spec == Init /\ [][Next]_vars

\* construction and derivation under every configuration
NextConfig ==
    \/ InitParams
    \/ RuntimeTests
    \/ InitEngine
    \/ HashCodename
    \/ GenKeypair

SpecConfig == InitAll /\ [][NextConfig]_vars

(***************************************************************************)
(* get_wordlist, one shared access per step                                *)
(***************************************************************************)
RECURSIVE splitlines(_)
\* text.splitlines(): the lines of a text, without their line ends
splitlines(text) ==
    IF text = <<>> THEN <<>>
    ELSE IF \E i \in 1..Len(text) : text[i] = "\n"
    THEN LET i == Min({j \in 1..Len(text) : text[j] = "\n"})
         IN <<SubSeq(text, 1, i - 1)>> \o splitlines(SubSeq(text, i + 1, Len(text)))
    ELSE <<text>>

\* d with d[k] = v
SetItem(d, k, v) ==
    [l \in DOMAIN d \cup {k} |-> IF l = k THEN v ELSE d[l]]

\* everything get_wordlist leaves alone
UNCHANGED_keys ==
    UNCHANGED <<env, args, phase, scrypt_params, gpg_key_length,
                scrypt_id_pepper, scrypt_gpg_pepper, gpg, keyring, pc, key,
                trace, last>>

\* get_wordlist(locale) is called: `locale not in self.__language2words'
\* and, for the default locale, the choice of the default path
GetWordlistCheck(t) ==
    /\ Ready
    /\ frame[t].pc = "idle"
    /\ \E locale \in Locales :
          LET f == [NoFrame EXCEPT !.locale = locale]
          IN frame' = [frame EXCEPT ![t] =
                IF locale \in DOMAIN language2words
                THEN [f EXCEPT !.pc = "return", !.hit = TRUE]
                ELSE IF locale /= "en"
                THEN [f EXCEPT !.pc = "probe"]
                ELSE [f EXCEPT !.pc = "load", !.wordlist_path = WordListPath]]
    /\ UNCHANGED <<language2words, fs>>
    /\ UNCHANGED_keys

\* os.path.exists(path) and the choice of wordlist_path
GetWordlistProbe(t) ==
    /\ frame[t].pc = "probe"
    /\ LET path == LocalePath(frame[t].locale)
       IN frame' = [frame EXCEPT ![t] =
             [@ EXCEPT !.pc = "load",
                       !.calls = Append(@, "exists"),
                       !.wordlist_path = IF fs[path] /= Missing THEN path
                                         ELSE WordListPath]]
    /\ UNCHANGED <<language2words, fs>>
    /\ UNCHANGED_keys

\* io.open(wordlist_path) and f.read().splitlines(); IOError when the path
\* is no file
GetWordlistLoad(t) ==
    /\ frame[t].pc = "load"
    /\ LET text == fs[frame[t].wordlist_path]
       IN frame' = [frame EXCEPT ![t] =
             IF text = Missing
             THEN [@ EXCEPT !.pc = "idle", !.calls = Append(@, "open"),
                            !.err = "IOError"]
             ELSE [@ EXCEPT !.pc = "store", !.calls = Append(@, "open"),
                            !.content = splitlines(text)]]
    /\ UNCHANGED <<language2words, fs>>
    /\ UNCHANGED_keys

\* the store keyed by the locale of the file that was read
GetWordlistStore_source_key(t) ==
    /\ frame[t].pc = "store"
    /\ language2words' =
          SetItem(language2words,
                  IF frame[t].wordlist_path = WordListPath THEN "en"
                  ELSE frame[t].locale,
                  frame[t].content)
    /\ frame' = [frame EXCEPT ![t].pc = "return"]
    /\ UNCHANGED fs
    /\ UNCHANGED_keys

\* the store extending the list already cached for the locale
GetWordlistStore_extend(t) ==
    /\ frame[t].pc = "store"
    /\ language2words' =
          SetItem(language2words, frame[t].locale,
                  IF frame[t].locale \in DOMAIN language2words
                  THEN language2words[frame[t].locale] \o frame[t].content
                  ELSE frame[t].content)
    /\ frame' = [frame EXCEPT ![t].pc = "return"]
    /\ UNCHANGED fs
    /\ UNCHANGED_keys

\* self.__language2words[locale] = content
GetWordlistStore(t) ==
    /\ frame[t].pc = "store"
    /\ language2words' = SetItem(language2words, frame[t].locale,
                                 frame[t].content)
    /\ frame' = [frame EXCEPT ![t].pc = "return"]
    /\ UNCHANGED fs
    /\ UNCHANGED_keys

\* return self.__language2words[locale]
GetWordlistReturn(t) ==
    /\ frame[t].pc = "return"
    /\ frame' = [frame EXCEPT ![t] =
          IF frame[t].locale \in DOMAIN language2words
          THEN [@ EXCEPT !.pc = "idle", !.ret = language2words[frame[t].locale]]
          ELSE [@ EXCEPT !.pc = "idle", !.err = "KeyError"]]
    /\ UNCHANGED <<language2words, fs>>
    /\ UNCHANGED_keys

\* a constructed object with an empty cache, on an installation's files
InitWords ==
    /\ env = "test"
    /\ args = [scrypt_id_pepper |-> <<"A">>, scrypt_gpg_pepper |-> <<"B">>,
               scrypt_params |-> ConfiguredParams]
    /\ phase = "ready"
    /\ scrypt_params = TestParams
    /\ gpg_key_length = 1024
    /\ scrypt_id_pepper = <<"A">>
    /\ scrypt_gpg_pepper = <<"B">>
    /\ gpg = TRUE
    /\ keyring = <<>>
    /\ pc = [w \in Procs |-> "idle"]
    /\ key = [w \in Procs |-> None]
    /\ trace = [w \in Procs |-> <<>>]
    /\ last = NoCall
    /\ language2words = EmptyCache
    /\ fs = InstalledFiles
    /\ frame = [t \in Threads |-> NoFrame]

NextWords ==
    \/ \E t \in Threads : GetWordlistCheck(t)
    \/ \E t \in Threads : GetWordlistProbe(t)
    \/ \E t \in Threads : GetWordlistLoad(t)
    \/ \E t \in Threads : GetWordlistStore(t)
    \/ \E t \in Threads : GetWordlistReturn(t)

\* get_wordlist called from two threads while the files stay as installed
SpecWords == InitWords /\ [][NextWords]_vars

\* the texts a path can be given by the installation's administrator
TextsOf(p) ==
    IF p = WordListPath THEN {EnglishText, EnglishTextNew}
    ELSE IF p = LocalePath("fr") THEN {FrenchText, Missing}
    ELSE {Missing}

\* a word-list file is replaced, removed or installed
FileChange ==
    /\ \E p \in Paths : \E text \in TextsOf(p) \ {fs[p]} :
          fs' = [fs EXCEPT ![p] = text]
    /\ UNCHANGED <<language2words, frame>>
    /\ UNCHANGED_keys

NextWordsFs ==
    \/ NextWords
    \/ FileChange

\* get_wordlist called from two threads while word-list files change
SpecWordsFs == InitWords /\ [][NextWordsFs]_vars

\* a call of the module-level clean(s, also)
Clean ==
    /\ \E s \in CleanInputs, also \in Alsos :
          LET r == clean(s, also)
          IN last' = Done("clean", <<s, also>>, r.err, r.val, NoData, <<>>)
    /\ UNCHANGED_object
    /\ UNCHANGED <<keyring, pc, key, trace>>

NextClean == Clean

\* clean applied to every input, on its own
SpecClean == Init /\ [][NextClean]_vars

(***************************************************************************)
(* Properties                                                              *)
(***************************************************************************)
\* the last completed call is a delete_reply_keypair that reached the engine
DeleteRan ==
    last.op = "delete_reply_keypair" /\ Len(last.calls) = 3

\* in a sequence of calls, a public-half deletion of a key comes only after
\* a private-half deletion of the same key
PrivateBeforePublic(cs) ==
    \A i \in 1..Len(cs) :
        (cs[i].fn = "delete_keys" /\ ~cs[i].secret)
            => \E j \in 1..(i - 1) : /\ cs[j].fn = "delete_keys"
                                     /\ cs[j].secret
                                     /\ cs[j].arg = cs[i].arg

\* C1: delete_reply_keypair issues the private-half deletion of the key it
\* found before the public-half deletion, and in every reachable state,
\* between the two deletions and after a failed second one included, no key
\* has its private half present while its public half is absent.
C1_PrivateFirstNoOrphan ==
    /\ \A w \in Procs : PrivateBeforePublic(trace[w])
    /\ last.op = "delete_reply_keypair" => PrivateBeforePublic(last.calls)
    /\ \A n \in 1..Len(keyring) : keyring[n].sec => keyring[n].pub

\* a delete whose private-half deletion took effect and whose public-half
\* deletion failed: the key is left with its public half only
C1_Witness ==
    /\ DeleteRan
    /\ last.calls[2].secret /\ last.calls[2].status = "ok"
    /\ ~last.calls[3].secret /\ last.calls[3].status = "fault"
    /\ LET n == KeyOf(keyring, last.calls[2].arg)
       IN keyring[n].pub /\ ~keyring[n].sec

Matching(ring, name) ==
    {n \in 1..Len(ring) : ring[n].pub /\ Contains(name, ring[n].uid)}

Undecryptable(n) ==
    \A c \in Codenames, m \in Plaintexts :
        decrypt(keyring, c,
                [rcpts |-> {n}, data |-> make_binary_stream(m), intact |-> TRUE],
                scrypt_id_pepper, scrypt_gpg_pepper, scrypt_params).val = <<>>

\* C3: once the first engine call of delete_reply_keypair has gone through
\* for a key, that key has no private half and decrypt returns no plaintext
\* for a message addressed to it, whatever codename is given and whether the
\* second deletion fails, has not run yet or never runs; and a key without
\* private half stays so in every later state.
C3_UnusableOnceBegun ==
    /\ [](\A w \in Procs :
            (pc[w] = "delete_public" /\ trace[w][2].status /= "fault")
                => /\ ~keyring[KeyOf(keyring, key[w])].sec
                   /\ Undecryptable(KeyOf(keyring, key[w])))
    /\ []((DeleteRan /\ last.calls[2].status /= "fault")
            => /\ ~keyring[KeyOf(keyring, last.calls[2].arg)].sec
               /\ Undecryptable(KeyOf(keyring, last.calls[2].arg)))
    /\ [](\A n \in 1..Len(keyring) : ~keyring[n].sec => Undecryptable(n))
    /\ [][\A n \in 1..Len(keyring) : ~keyring[n].sec => ~keyring'[n].sec]_vars

\* decrypt called with the codename of a key whose private half is deleted
\* and whose public half is still there: no plaintext comes back
C3_Witness ==
    /\ last.op = "decrypt"
    /\ last.err = NoError
    /\ last.arg[2].intact
    /\ \E n \in last.arg[2].rcpts :
          /\ n \in 1..Len(keyring)
          /\ keyring[n].pub /\ ~keyring[n].sec
          /\ keyring[n].passphrase = key_passphrase(last.arg[1]).val
    /\ last.val = <<>>

\* a call of a method of the constructed object has completed
Served == last.op \notin {"none", "__init__"}

\* C4: with equal peppers construction ends in the AssertionError of
\* do_runtime_tests before the engine handle exists and before any call is
\* served; so whenever a derivation or keypair call has been served, the two
\* peppers differ.
C4_PepperCollisionStopsStartup ==
    /\ args.scrypt_id_pepper = args.scrypt_gpg_pepper
          => /\ phase \in {"new", "configured", "failed"}
             /\ ~gpg
             /\ ~Served
             /\ phase = "failed" => last.op = "__init__"
                                    /\ last.err = "AssertionError"
    /\ Served => /\ scrypt_id_pepper /= scrypt_gpg_pepper
                 /\ args.scrypt_id_pepper /= args.scrypt_gpg_pepper

\* construction given equal peppers has failed
C4_Witness ==
    /\ args.scrypt_id_pepper = args.scrypt_gpg_pepper
    /\ phase = "failed"
    /\ last.err = "AssertionError"

\* C5: whenever the two peppers of the object differ, every valid codename
\* has an identity hash different from its key passphrase, and every key
\* genkeypair created is protected by a passphrase different from the
\* identity hash it was tagged with.
C5_HashDiffersFromPassphrase ==
    (phase /= "new" /\ scrypt_id_pepper /= scrypt_gpg_pepper)
        => /\ \A c \in ValidCodenames :
                 identity_hash(c).val /= key_passphrase(c).val
           /\ \A n \in 1..Len(keyring) :
                 keyring[n].uid /= Uid(keyring[n].passphrase)

\* a key has been generated for a codename under differing peppers
C5_Witness ==
    /\ scrypt_id_pepper /= scrypt_gpg_pepper
    /\ last.op = "genkeypair"
    /\ last.err = NoError
    /\ last.val /= <<>>
    /\ last.arg[1] = identity_hash(last.arg[2]).val
    /\ keyring /= <<>>

\* the ways a caller names the n-th key as the recipient
RecipientsOf(n) ==
    {[is_list |-> TRUE, v |-> <<Fpr(n)>>],
     [is_list |-> FALSE, v |-> Fpr(n)],
     [is_list |-> FALSE, v |-> FprSpaced(n)]}

\* C6: for a key generated by genkeypair(hash_codename(c), c) that still has
\* both halves, encrypt(p, [f]) succeeds and decrypt(c, .) of its result is
\* the bytes of p (p itself for a byte string, its UTF-8 encoding for text).
C6_RoundTrip ==
    \A c \in ValidCodenames, n \in 1..Len(keyring), m \in Plaintexts :
        (keyring[n].uid = Uid(identity_hash(c).val)
           /\ keyring[n].pub /\ keyring[n].sec)
        => \A f \in RecipientsOf(n) :
              LET e == encrypt(keyring, m, f, "")
                  d == decrypt(keyring, c, e.val, scrypt_id_pepper,
                               scrypt_gpg_pepper, scrypt_params)
              IN /\ e.err = NoError
                 /\ d.err = NoError
                 /\ d.val = make_binary_stream(m)
                 /\ m.unicode => d.val = Encode(m.s)
                 /\ ~m.unicode => d.val = m.s

\* decrypt has returned the bytes of the text message encrypted to the key
\* of its codename
C6_Witness ==
    /\ last.op = "decrypt"
    /\ last.err = NoError
    /\ last.val = <<"xC3", "xA9">>
    /\ \E n \in last.arg[2].rcpts :
          /\ keyring[n].uid = Uid(identity_hash(last.arg[1]).val)
          /\ keyring[n].pub /\ keyring[n].sec

\* C7 as stated: whenever the engine cannot decrypt, decrypt fails with an
\* error instead of returning a value.
C7_DecryptFailureRaises ==
    (last.op = "decrypt" /\ Len(last.calls) = 1
        /\ last.calls[1].status /= "ok")
    => last.err /= NoError

\* C8 as stated: when no key matches the name, export_pubkey fails with an
\* error and makes no export_keys call.
C8_ExportWithoutKeyRaises ==
    (last.op = "export_pubkey" /\ getkey(keyring, last.arg[1]) = None)
    => /\ last.err /= NoError
       /\ \A i \in 1..Len(last.calls) : last.calls[i].fn /= "export_keys"

\* the keys tagged with name, deleted or not
Tagged(ring, name) == {n \in 1..Len(ring) : ring[n].uid = Uid(name)}

\* C9: while exactly one key has been generated for an identity hash and
\* neither half of it has been deleted, getkey returns the fingerprint
\* genkeypair returned for it, on every call, and a getkey call leaves the
\* keyring unchanged.
C9_LookupIdempotent ==
    /\ [](\A h \in Names :
            (Cardinality(Tagged(keyring, h)) = 1
               /\ \A n \in Tagged(keyring, h) : keyring[n].pub /\ keyring[n].sec)
            => \A n \in Tagged(keyring, h) : getkey(keyring, h) = Fpr(n))
    /\ [][(last'.op = "genkeypair" /\ last'.err = NoError /\ last'.val /= <<>>
             /\ Len(keyring') = Len(keyring) + 1
             /\ Tagged(keyring, last'.arg[1]) = {})
            => getkey(keyring', last'.arg[1]) = last'.val]_vars
    /\ [][(last'.op = "getkey" /\ pc' = pc) => keyring' = keyring]_vars

\* getkey has returned the fingerprint of the only key of its identity while
\* a key of another identity is listed before it
C9_Witness ==
    /\ last.op = "getkey"
    /\ Cardinality(Tagged(keyring, last.arg[1])) = 1
    /\ \A n \in Tagged(keyring, last.arg[1]) :
          /\ keyring[n].pub /\ keyring[n].sec
          /\ last.val = Fpr(n)
          /\ n > 1 /\ keyring[1].pub

\* C10: when encrypt is given an output target, its first collaborator call
\* is the storage verify; when verify fails, encrypt fails with that error,
\* the engine's encrypt is not called and neither data nor a file results.
C10_VerifyBeforeEncrypt ==
    (last.op = "encrypt" /\ last.arg[3] /= "")
    => /\ last.calls /= <<>>
       /\ last.calls[1].fn = "verify"
       /\ last.calls[1].arg = <<last.arg[3]>>
       /\ storage_verify(last.arg[3]) /= NoError
            => /\ last.err = storage_verify(last.arg[3])
               /\ \A i \in 1..Len(last.calls) : last.calls[i].fn /= "encrypt"
               /\ last.val = NoData
               /\ last.file = NoData

\* encrypt to an existing key with an output path outside the store has
\* failed in verify
C10_Witness ==
    /\ last.op = "encrypt"
    /\ last.arg[3] = "../reply.gpg"
    /\ last.err = "PathException"
    /\ KeyOf(keyring, RemoveSpaces(last.arg[2].v)) /= 0

\* the gpg.encrypt calls among the calls of an encrypt
EngineEncrypts(cs) == {i \in 1..Len(cs) : cs[i].fn = "encrypt"}

\* what C11 asks of the outcome r of an encrypt given output o
EncryptOutcomeOk(r, o) ==
    /\ Cardinality(EngineEncrypts(r.calls)) <= 1
    /\ (o = "" \/ storage_verify(o) = NoError)
          => Cardinality(EngineEncrypts(r.calls)) = 1
    /\ \A i \in EngineEncrypts(r.calls) :
          /\ r.calls[i].status = "ok"
                => /\ r.err = NoError
                   /\ o = "" => r.val.intact
                   /\ o /= "" => r.file.intact
          /\ r.calls[i].status /= "ok"
                => /\ r.err = "CryptoException"
                   /\ r.msg = r.calls[i].status
                   /\ r.val = NoData
                   /\ r.file = NoData
    /\ r.err = NoError => \E i \in EngineEncrypts(r.calls) :
                              r.calls[i].status = "ok"

\* C11: encrypt calls the engine at most once; it returns the engine's data
\* exactly when the engine reported success, and otherwise raises
\* CryptoException with the engine's stderr as its argument.
C11_EncryptReportsEngineFailure ==
    /\ \A m \in Plaintexts, f \in Recipients, o \in Outputs :
          EncryptOutcomeOk(encrypt(keyring, m, f, o), o)
    /\ last.op = "encrypt"
          => LET r == encrypt(keyring, last.arg[1], last.arg[2], last.arg[3])
             IN /\ last.err = r.err
                /\ last.calls = r.calls
                /\ EncryptOutcomeOk([r EXCEPT !.err = last.err,
                                              !.val = last.val,
                                              !.file = last.file,
                                              !.calls = last.calls],
                                    last.arg[3])

\* encrypt to a fingerprint of no key has raised CryptoException
C11_Witness ==
    /\ last.op = "encrypt"
    /\ last.arg[3] = ""
    /\ last.err = "CryptoException"
    /\ Len(last.calls) = 1
    /\ last.calls[1].status = "gpg: encryption failed"
    /\ keyring /= <<>>

\* C12: clean(s, also) returns s when every character of s is in
\* DICEWARE_SAFE_CHARS or in also, and raises CryptoException otherwise;
\* clean("[]") raises it and clean("Helloworld") returns "Helloworld".
C12_CleanAsStated ==
    last.op = "clean"
       => LET s == last.arg[1]
              also == last.arg[2]
          IN IF \A i \in 1..Len(s) : s[i] \in DICEWARE_SAFE_CHARS \cup also
             THEN last.err = NoError /\ last.val = s
             ELSE last.err = "CryptoException"

\* the cost parameters and key length C14 allows under the environment
AllowedParams == IF env = "test" THEN TestParams ELSE args.scrypt_params

AllowedKeyLength == IF env = "test" THEN 1024 ELSE 4096

\* C14: the reduced scrypt parameters and the reduced key length are in
\* effect only when SECUREDROP_ENV is 'test'; under every other environment
\* the object holds the configured parameters, every hash_codename result is
\* derived with them, and every key is made with them and 4096 bits.
C14_ReducedOnlyInTestMode ==
    /\ phase /= "new"
          => /\ scrypt_params = AllowedParams
             /\ gpg_key_length = AllowedKeyLength
             /\ (scrypt_params = TestParams \/ gpg_key_length = 1024)
                   => env = "test"
    /\ (last.op = "hash_codename" /\ last.err = NoError)
          => last.val = b32encode(scrypt_hash(last.arg[1],
                                              args.scrypt_id_pepper,
                                              AllowedParams))
    /\ \A n \in 1..Len(keyring) :
          /\ keyring[n].bits = AllowedKeyLength
          /\ \E c \in ValidCodenames :
                keyring[n].passphrase
                   = b32encode(scrypt_hash(c, args.scrypt_gpg_pepper,
                                           AllowedParams))

\* outside test mode a key was generated and a codename hashed
C14_Witness ==
    /\ env = "<unset>"
    /\ phase = "ready"
    /\ keyring /= <<>>
    /\ keyring[1].bits = 4096
    /\ last.op = "hash_codename"
    /\ last.err = NoError

\* the step is a completed call of genkeypair
GenKeypairStep == last'.op = "genkeypair" /\ pc' = pc /\ phase' = phase

\* C17: every genkeypair call whose arguments pass clean makes exactly one
\* engine call, gen_key with the name, and none of list_keys or getkey; when
\* the engine creates the key it is appended to the keyring as a new key
\* tagged with the name, whether or not a key with that tag exists already.
C17_NoExistingKeyCheck ==
    /\ []((last.op = "genkeypair" /\ last.err = NoError)
            => last.calls = <<Call("gen_key", last.arg[1])>>)
    /\ [][(GenKeypairStep /\ last'.err = NoError)
            => IF last'.val = <<>>
               THEN keyring' = keyring
               ELSE /\ Len(keyring') = Len(keyring) + 1
                    /\ SubSeq(keyring', 1, Len(keyring)) = keyring
                    /\ last'.val = Fpr(Len(keyring'))
                    /\ Tagged(keyring', last'.arg[1])
                         = Tagged(keyring, last'.arg[1]) \cup {Len(keyring')}
          ]_vars

\* a second genkeypair for the same name has created a second key
C17_Witness ==
    /\ last.op = "genkeypair"
    /\ last.err = NoError
    /\ last.val = Fpr(2)
    /\ Tagged(keyring, last.arg[1]) = {1, 2}
    /\ keyring[1].pub /\ keyring[1].sec

\* keys generated with name as their identity metadata
GeneratedFor(name) == Tagged(keyring, name)

\* C18: for every identity hash a, getkey(a) returns None or the fingerprint
\* of a key generated with name a, never that of a key generated for another
\* identity hash b, and it returns None when no key was generated for a; so
\* did every getkey call made.
C18_LookupIsolation ==
    /\ \A a \in Names :
          LET f == getkey(keyring, a)
          IN /\ f /= None => KeyOf(keyring, f) \in GeneratedFor(a)
             /\ \A b \in Names \ {a} :
                   f /= None => KeyOf(keyring, f) \notin GeneratedFor(b)
             /\ GeneratedFor(a) = {} => f = None
    /\ (last.op = "getkey" /\ last.val /= None)
          => KeyOf(keyring, last.val) \in GeneratedFor(last.arg[1])

\* getkey(b) has returned None while a key of another identity is listed,
\* and getkey(a) returns that key
C18_Witness ==
    /\ last.op = "getkey"
    /\ last.val = None
    /\ GeneratedFor(last.arg[1]) = {}
    /\ \E a \in Names \ {last.arg[1]} :
          /\ getkey(keyring, a) = Fpr(1)
          /\ GeneratedFor(a) = {1}

\* the keys a running or completed delete for name may touch
Others(ring, name) == (1..Len(ring)) \ Tagged(ring, name)

\* C19: delete_reply_keypair(a) starts deleting only when getkey(a) finds a
\* key; each of its two engine deletions leaves both halves of every key not
\* tagged a unchanged and touches no key but the one found; and when getkey(a)
\* finds none it returns with the keyring unchanged and no delete_keys call.
C19_DeleteFrame ==
    /\ [][\A w \in Procs :
            /\ (pc[w] = "idle" /\ pc'[w] /= "idle")
                  => /\ getkey(keyring, trace'[w][1].arg) /= None
                     /\ key'[w] = getkey(keyring, trace'[w][1].arg)
                     /\ keyring' = keyring
            /\ (pc[w] /= "idle" /\ pc'[w] /= pc[w])
                  => /\ Len(keyring') = Len(keyring)
                     /\ \A n \in Others(keyring, trace[w][1].arg) :
                           keyring'[n] = keyring[n]
                     /\ \A n \in 1..Len(keyring) :
                           Fpr(n) /= key[w] => keyring'[n] = keyring[n]
          ]_vars
    /\ [][(last'.op = "delete_reply_keypair" /\ pc' = pc /\ phase' = phase)
            => /\ keyring' = keyring
               /\ getkey(keyring, last'.arg[1]) = None
               /\ Len(last'.calls) = 1
               /\ last'.calls[1].fn = "getkey"
          ]_vars

\* a delete has removed both halves of its key while a key of another
\* identity keeps both halves
C19_Witness ==
    /\ last.op = "delete_reply_keypair"
    /\ Len(last.calls) = 3
    /\ \E n \in Tagged(keyring, last.arg[1]) :
          ~keyring[n].pub /\ ~keyring[n].sec
    /\ \E n \in Others(keyring, last.arg[1]) :
          keyring[n].pub /\ keyring[n].sec

\* C20: when name or secret of genkeypair(name, secret) holds a disallowed
\* character, the call raises CryptoException, makes no engine call and
\* leaves the keyring unchanged.
C20_InvalidInputStopsKeygen ==
    /\ []((/\ last.op = "genkeypair"
           /\ \/ \E i \in 1..Len(last.arg[1]) : ~SafeChar(last.arg[1][i], {})
              \/ \E i \in 1..Len(last.arg[2]) : ~SafeChar(last.arg[2][i], {}))
            => /\ last.err = "CryptoException"
               /\ last.calls = <<>>)
    /\ [][(GenKeypairStep /\ last'.err /= NoError) => keyring' = keyring]_vars

\* thread t has returned from a get_wordlist call
Returned(t) == frame[t].pc = "idle" /\ frame[t].locale /= ""

\* the lines of the default word list
DefaultWords == splitlines(fs[WordListPath])

\* C13: get_wordlist(locale) for a locale other than 'en' that has no file
\* of its own returns the lines of the default word list and raises nothing,
\* and the cache then holds that list under the locale asked for; a call
\* that finds the locale cached makes no os.path.exists and no io.open call
\* and returns the cached list, and every call made once the locale is
\* cached finds it cached.
C13_FallbackCachedUnderLocale ==
    /\ [](\A t \in Threads :
            (Returned(t) /\ frame[t].locale /= "en"
               /\ fs[LocalePath(frame[t].locale)] = Missing)
            => /\ frame[t].err = NoError
               /\ frame[t].ret = DefaultWords
               /\ frame[t].locale \in DOMAIN language2words
               /\ language2words[frame[t].locale] = DefaultWords
               /\ frame[t].hit => frame[t].calls = <<>>
               /\ ~frame[t].hit => frame[t].calls = <<"exists", "open">>)
    /\ [][\A t \in Threads :
            (frame[t].pc = "idle" /\ frame'[t].pc /= "idle"
               /\ frame'[t].locale \in DOMAIN language2words)
            => frame'[t].pc = "return" /\ frame'[t].hit]_vars
    /\ [][DOMAIN language2words \subseteq DOMAIN language2words']_vars

\* a later call for the locale without a file has returned the cached
\* default list without touching the filesystem
C13_Witness ==
    \E t \in Threads :
       /\ Returned(t)
       /\ frame[t].locale = "xx"
       /\ frame[t].hit
       /\ frame[t].calls = <<>>
       /\ frame[t].ret = <<<<"able">>, <<"acid">>>>

\* what one get_wordlist(locale) call on its own loads from the files
SequentialLoad(locale) ==
    splitlines(fs[IF locale /= "en" /\ fs[LocalePath(locale)] /= Missing
                  THEN LocalePath(locale) ELSE WordListPath])

\* C15: with the word-list files left as they are, under every interleaving
\* of two threads' first get_wordlist calls for one locale each cache entry
\* equals what a single call would have loaded, each thread's loaded content
\* equals it, and each caller is returned it.
C15_ConcurrentFirstAccess ==
    /\ \A l \in DOMAIN language2words : language2words[l] = SequentialLoad(l)
    /\ \A t \in Threads :
          /\ frame[t].pc = "store"
                => frame[t].content = SequentialLoad(frame[t].locale)
          /\ Returned(t)
                => /\ frame[t].err = NoError
                   /\ frame[t].ret = SequentialLoad(frame[t].locale)

\* both threads found the locale uncached, both loaded, and both returned
C15_Witness ==
    /\ \A t \in Threads :
          /\ Returned(t)
          /\ frame[t].locale = "fr"
          /\ ~frame[t].hit
          /\ frame[t].calls = <<"exists", "open">>
    /\ frame[1].ret = frame[2].ret
    /\ language2words["fr"] = frame[1].ret

\* C16: once a locale has an entry in the cache, the entry stays and keeps
\* the value first stored, whatever get_wordlist calls and file changes
\* follow.
C16_EntryImmutable ==
    [][\A l \in DOMAIN language2words :
          /\ l \in DOMAIN language2words'
          /\ language2words'[l] = language2words[l]]_vars

====
